---- MODULE Spec2Model ----
(***************************************************************************)
(* Client-side task-progress synchronisation of the PPT assistant web app: *)
(* the progress store (aggregator), the two push-channel managers          *)
(* (WebSocketService and the useWebSocket composable), the client store    *)
(* and the task controller (useTaskProgress) with the page handlers that   *)
(* drive it.                                                               *)
(*                                                                         *)
(* JavaScript objects are functions whose DOMAIN is the set of fields that *)
(* are present; null / undefined object references are the empty function. *)
(* Chinese string literals of the source are written in pinyin:            *)
(*   "wancheng" = U+5B8C U+6210, "yiwancheng" = U+5DF2 U+5B8C U+6210,      *)
(*   "chulizhong" = the default step, "renwuzhixingshibai" = the default   *)
(*   error message.                                                        *)
(***************************************************************************)
EXTENDS Integers, Sequences, FiniteSets, TLC

VARIABLES
  \* stores/progress (the aggregator)
  taskStatus, progressMessages, previewImages, isGenerating, taskError,
  processedMessages,
  \* stores/client: the current task id and its localStorage item
  currentTaskId, localStorage,
  \* the browser: the WebSocket objects that can still raise an event, and
  \* the armed timers
  sockets, timers,
  \* services/websocket (the WebSocketService singleton), one instance of the
  \* useWebSocket composable, and which of the two the page drives
  service, composable, driven,
  \* REST calls whose promise is pending, and the mounted components that
  \* use useTaskProgress
  calls, mounted,
  \* history: the last operation that ran, the event it applied, and for each
  \* message of progressMessages the (current_step, progress,
  \* step_description) fields of the event that appended it
  lastOp, lastEvent, messageTriples,
  \* history of the connection (see InitConnHist)
  connHist,
  \* utils/clientId: the ppt_assistant_client_id item of localStorage, and
  \* the clientId ref of stores/client
  clientIdItem, clientId

aggVars == <<taskStatus, progressMessages, previewImages, isGenerating,
             taskError, processedMessages>>
clientVars == <<currentTaskId, localStorage>>
connVars == <<sockets, timers, service, composable, driven>>
ctlVars == <<calls, mounted>>
histVars == <<lastOp, lastEvent, messageTriples, connHist>>
idVars == <<clientIdItem, clientId>>
vars == <<aggVars, clientVars, connVars, ctlVars, histVars, idVars>>

----------------------------------------------------------------------------
(* Bounds of the model *)

\* an event is applied only if at most this many messages are held afterwards
MaxMsgs == 2
\* WebSocket objects that can raise events at one time
MaxSockets == 2
\* timers armed at one time
MaxTimers == 2
\* closures counted without a successful open in between
MaxClosures == 7
\* REST calls in flight at one time
MaxCalls == 2
\* child components whose mount hook runs when the page loads (the page has
\* two: GenerationControls and ChatStyleProgress)
MaxChildHooks == 0

----------------------------------------------------------------------------
(* JavaScript values *)

Null == "null"          \* a null string-valued ref
NoObj == <<>>           \* a null / undefined object reference

Has(o, f) == f \in DOMAIN o
\* o.f || dflt for a string field
StrOr(o, f, dflt) == IF Has(o, f) /\ o[f] # "" THEN o[f] ELSE dflt
\* o.f || dflt for a numeric field
NumOr(o, f, dflt) == IF Has(o, f) /\ o[f] # 0 THEN o[f] ELSE dflt
\* o.f for an object-valued field, NoObj when absent
ObjOf(o, f) == IF Has(o, f) THEN o[f] ELSE NoObj

\* String.prototype.includes
Includes(s, sub) ==
  \E i \in 1..(Len(s) - Len(sub) + 1) : SubSeq(s, i, i + Len(sub) - 1) = sub

----------------------------------------------------------------------------
(* stores/progress: the de-duplicating revision of the store *)

\* The store's refs as one value
AggState == [taskStatus |-> taskStatus, progressMessages |-> progressMessages,
             previewImages |-> previewImages, isGenerating |-> isGenerating,
             taskError |-> taskError, processedMessages |-> processedMessages]

\* The refs' initial values
EmptyAgg == [taskStatus |-> Null, progressMessages |-> <<>>,
             previewImages |-> <<>>, isGenerating |-> FALSE,
             taskError |-> NoObj, processedMessages |-> {}]

generateMessageKey(data) ==
  StrOr(data, "current_step", "unknown") \o "-" \o
  ToString(NumOr(data, "progress", 0)) \o "-" \o
  StrOr(data, "step_description", "")

\* an updateTaskProgress that takes its argument as the event, envelope or not
Unwrap_Never(progressData) == progressData

\* const data = progressData.data ? progressData.data : progressData
Unwrap(progressData) ==
  IF Has(progressData, "data") THEN progressData["data"] ELSE progressData

\* if (data.status) taskStatus.value = data.status
StatusStep(s, data) ==
  IF StrOr(data, "status", "") # ""
    THEN [s EXCEPT !.taskStatus = data["status"]]
    ELSE s

DefaultError(data) ==
  [has_error |-> TRUE, error_code |-> "UNKNOWN_ERROR",
   error_message |-> StrOr(data, "step_description", "renwuzhixingshibai"),
   can_retry |-> TRUE]

\* an error chain without the default error of a failed event
ErrorStep_NoDefault(s, data) ==
  IF ObjOf(data, "error") # NoObj
    THEN [s EXCEPT !.taskError = data["error"]]
    ELSE [s EXCEPT !.taskError = NoObj]

\* the if / else-if chain on data.error
ErrorStep(s, data) ==
  IF ObjOf(data, "error") # NoObj
    THEN [s EXCEPT !.taskError = data["error"]]
  ELSE IF StrOr(data, "status", "") = "failed"
    THEN [s EXCEPT !.taskError = DefaultError(data)]
  ELSE IF StrOr(data, "status", "") # "failed"
    THEN [s EXCEPT !.taskError = NoObj]
  ELSE s

\* the guard of the early return inside the message block
SkipsCompletion(s, data) ==
  /\ s.taskStatus = "failed"
  /\ \/ StrOr(data, "status", "") = "completed"
     \/ Includes(data["step_description"], "wancheng")
     \/ Includes(data["step_description"], "yiwancheng")

NewMessage(data) ==
  [step |-> StrOr(data, "current_step", "chulizhong"),
   message |-> data["step_description"],
   progress |-> NumOr(data, "progress", 0),
   isError |-> StrOr(data, "status", "") = "failed"]

\* the earlier revision of the store: every described event appends
MessageStep_NoDedup(s, data) ==
  IF StrOr(data, "step_description", "") = ""
    THEN [state |-> s, returned |-> FALSE]
    ELSE [state |-> [s EXCEPT
                       !.progressMessages = Append(@, NewMessage(data))],
          returned |-> FALSE]

\* the message block; .returned tells that the function returned inside it
MessageStep(s, data) ==
  IF StrOr(data, "step_description", "") = ""
    THEN [state |-> s, returned |-> FALSE]
  ELSE IF generateMessageKey(data) \in s.processedMessages
    THEN [state |-> s, returned |-> FALSE]
  ELSE IF SkipsCompletion(s, data)
    THEN [state |-> s, returned |-> TRUE]
  ELSE [state |-> [s EXCEPT
                     !.progressMessages = Append(@, NewMessage(data)),
                     !.processedMessages = @ \cup {generateMessageKey(data)}],
        returned |-> FALSE]

\* previewImages.value.some(p => p.url === url)
UrlExists(previews, url) == \E i \in 1..Len(previews) : previews[i] = url

\* the earlier revision of the store: preview_url is pushed unchecked
PushIfNew_Unchecked(previews, url) == Append(previews, url)

\* a push that puts a new preview in front of the list
PushIfNew_AtFront(previews, url) ==
  IF UrlExists(previews, url) THEN previews ELSE <<url>> \o previews

PushIfNew(previews, url) ==
  IF UrlExists(previews, url) THEN previews ELSE Append(previews, url)

\* data.preview_images.forEach(...)
RECURSIVE PushImages(_, _)
PushImages(previews, imgs) ==
  IF imgs = <<>> THEN previews
  ELSE PushImages(
         IF StrOr(Head(imgs), "preview_url", "") # ""
           THEN PushIfNew(previews, Head(imgs)["preview_url"])
           ELSE previews,
         Tail(imgs))

PreviewStep(s, data) ==
  IF \/ StrOr(data, "status", "") = "completed" /\ s.taskError = NoObj
     \/ StrOr(data, "preview_url", "") # ""
    THEN LET p1 == IF StrOr(data, "preview_url", "") # ""
                     THEN PushIfNew(s.previewImages, data["preview_url"])
                     ELSE s.previewImages
             p2 == IF Has(data, "preview_images")
                     THEN PushImages(p1, data["preview_images"])
                     ELSE p1
         IN [s EXCEPT !.previewImages = p2]
    ELSE s

\* the earlier revision of the store: no guard
IgnoresCompleted_NoGuard(s, data) == FALSE

\* The terminal-state guard at the head of updateTaskProgress
IgnoresCompleted(s, data) ==
  s.taskStatus = "failed" /\ StrOr(data, "status", "") = "completed"

updateTaskProgress(s, progressData) ==
  LET data == Unwrap(progressData)
  IN IF IgnoresCompleted(s, data) THEN s
     ELSE LET m == MessageStep(ErrorStep(StatusStep(s, data), data), data)
          IN IF m.returned THEN m.state ELSE PreviewStep(m.state, data)

setTaskStatus(s, status) == [s EXCEPT !.taskStatus = status]

setIsGenerating(s, value) == [s EXCEPT !.isGenerating = value]

\* a reset that does not clear the set of processed keys
resetProgress_KeepsKeys(s) ==
  [EmptyAgg EXCEPT !.processedMessages = s.processedMessages]

resetProgress(s) == EmptyAgg

\* Writes a store value back to the refs
SetAgg(s) ==
  /\ taskStatus' = s.taskStatus
  /\ progressMessages' = s.progressMessages
  /\ previewImages' = s.previewImages
  /\ isGenerating' = s.isGenerating
  /\ taskError' = s.taskError
  /\ processedMessages' = s.processedMessages

----------------------------------------------------------------------------
(* Events: the wire shape of section 6, each field optional *)

Opt(f, S) == {<<>>} \cup {f :> v : v \in S}

Statuses == {"pending", "processing", "completed", "failed", "cancelled"}

ErrBoom == [has_error |-> TRUE, error_code |-> "E1", error_message |-> "boom",
            can_retry |-> TRUE]
ErrNone == [has_error |-> FALSE, can_retry |-> FALSE]

Img(u) == [slide_index |-> 0, preview_url |-> u]
ImgNoUrl == [slide_index |-> 0]

\* events that carry a step description
MessageEvents ==
  {[status |-> "processing", current_step |-> "plan", progress |-> 10,
    step_description |-> "planning"],
   [status |-> "failed", step_description |-> "planning"],
   [step_description |-> "yiwancheng"],
   \* spells out the defaults generateMessageKey fills in
   [current_step |-> "unknown", progress |-> 0, step_description |-> "planning"]}

\* preview references as sent: preview_url, preview_images, or both
PreviewVariants ==
  {<<>>, [preview_url |-> "u1"], [preview_url |-> "u2"],
   [preview_images |-> <<Img("u1"), Img("u1")>>],
   [preview_images |-> <<Img("u2"), ImgNoUrl>>],
   [preview_url |-> "u1", preview_images |-> <<Img("u1"), Img("u2")>>]}

\* events that carry preview references
PreviewEvents ==
  {[preview_url |-> "u1"],
   [status |-> "completed", preview_url |-> "u2"],
   [status |-> "completed", preview_images |-> <<Img("u1"), Img("u1")>>],
   [status |-> "processing", preview_images |-> <<Img("u2"), ImgNoUrl>>],
   [preview_url |-> "u1", preview_images |-> <<Img("u1"), Img("u2")>>]}

\* events that carry an error object
ErrorEvents ==
  {[status |-> "failed", error |-> ErrBoom],
   [status |-> "completed", error |-> ErrNone,
    preview_images |-> <<Img("u1")>>]}

StatusEvents == {"status" :> v : v \in {"processing", "completed", "failed"}}

BareEvents == MessageEvents \cup PreviewEvents \cup ErrorEvents \cup StatusEvents

\* the REST envelope around a payload
Envelope(e) == [code |-> 200, message |-> "ok", data |-> e]

Envelopes ==
  {Envelope([status |-> "failed", step_description |-> "planning"]),
   Envelope([status |-> "completed", preview_url |-> "u1"])}

Events == BareEvents \cup Envelopes

----------------------------------------------------------------------------
(* The browser: WebSocket objects and timers *)

NoSocket == 0           \* a null WebSocket reference
NoTimer == 0            \* a null timer id

Tasks == {"t1", "t2"}

Min(S) == CHOOSE x \in S : \A y \in S : x <= y

Remove(f, k) == [i \in DOMAIN f \ {k} |-> f[i]]
Put(f, k, v) == [i \in DOMAIN f \cup {k} |-> IF i = k THEN v ELSE f[i]]

\* The managers and the browser objects they act on, as one value
World == [service |-> service, composable |-> composable,
          sockets |-> sockets, timers |-> timers]

\* the id of the object that new WebSocket(url) returns
FreshSocketId(w) ==
  Min((1..MaxSockets)
        \ (DOMAIN w.sockets \cup {w.service.socket, w.composable.socket}))

\* new WebSocket(url) followed by the assignment of the four handlers
NewWebSocket(socks, id, owner, taskId) ==
  Put(socks, id, [readyState |-> "CONNECTING", task |-> taskId,
                  owner |-> owner, attached |-> TRUE])

\* socket.onopen = socket.onmessage = socket.onclose = socket.onerror = null
DetachHandlers(socks, id) ==
  IF id \in DOMAIN socks THEN [socks EXCEPT ![id].attached = FALSE] ELSE socks

\* if (readyState === OPEN || readyState === CONNECTING) socket.close()
CloseIfOpen(socks, id) ==
  IF id \in DOMAIN socks /\ socks[id].readyState \in {"OPEN", "CONNECTING"}
    THEN [socks EXCEPT ![id].readyState = "CLOSING"]
    ELSE socks

\* a socket without handlers raises no event any more
Collect(socks) == [i \in {j \in DOMAIN socks : socks[j].attached} |-> socks[i]]

\* window.clearTimeout(id)
ClearTimeout(tm, id) == {t \in tm : t.id # id}

\* the id that window.setTimeout returns
FreshTimerId(tm) == Min((1..MaxTimers) \ {t.id : t \in tm})

\* window.setTimeout(callback, delay); the callback belongs to owner and
\* closes over taskId
SetTimeout(tm, id, owner, taskId) ==
  tm \cup {[id |-> id, owner |-> owner, task |-> taskId]}

----------------------------------------------------------------------------
(* services/websocket: WebSocketService *)

maxReconnectAttempts == 5

InitService == [socket |-> NoSocket, taskId |-> Null,
                reconnectAttempts |-> 0, reconnectTimer |-> NoTimer]

disconnect(w) ==
  LET w1 == IF w.service.reconnectTimer # NoTimer
              THEN [w EXCEPT !.timers = ClearTimeout(@, w.service.reconnectTimer),
                             !.service.reconnectTimer = NoTimer]
              ELSE w
      w2 == IF w1.service.socket # NoSocket
              THEN [w1 EXCEPT
                      !.sockets = Collect(CloseIfOpen(
                                    DetachHandlers(@, w1.service.socket),
                                    w1.service.socket)),
                      !.service.socket = NoSocket]
              ELSE w1
  IN [w2 EXCEPT !.service.taskId = Null, !.service.reconnectAttempts = 0]

\* connect without closing the existing connection first
connect_KeepsOld(w, taskId) ==
  LET w1 == [w EXCEPT !.service.taskId = taskId]
      id == FreshSocketId(w1)
  IN [w1 EXCEPT !.sockets = NewWebSocket(@, id, "WebSocketService", taskId),
                !.service.socket = id]

connect(w, taskId) ==
  LET w1 == disconnect([w EXCEPT !.service.taskId = taskId])
      id == FreshSocketId(w1)
  IN [w1 EXCEPT !.sockets = NewWebSocket(@, id, "WebSocketService", taskId),
                !.service.socket = id]

isConnected(w) ==
  /\ w.service.socket # NoSocket
  /\ w.service.socket \in DOMAIN w.sockets
  /\ w.sockets[w.service.socket].readyState = "OPEN"

getTaskId(w) == w.service.taskId

scheduleReconnect(w) ==
  LET cleared == IF w.service.reconnectTimer # NoTimer
                   THEN ClearTimeout(w.timers, w.service.reconnectTimer)
                   ELSE w.timers
      id == FreshTimerId(cleared)
  IN [w EXCEPT !.timers = SetTimeout(cleared, id, "WebSocketService", Null),
               !.service.reconnectAttempts = @ + 1,
               !.service.reconnectTimer = id]

\* the callback of the reconnect timer
serviceReconnect(w) ==
  IF w.service.taskId # Null THEN connect(w, w.service.taskId) ELSE w

serviceOnOpen(w) == [w EXCEPT !.service.reconnectAttempts = 0]

serviceOnClose(w) ==
  LET w1 == [w EXCEPT !.service.socket = NoSocket]
  IN IF w1.service.taskId # Null
          /\ w1.service.reconnectAttempts < maxReconnectAttempts
       THEN scheduleReconnect(w1)
       ELSE w1

\* a frame whose text is not JSON
Malformed == [malformed |-> TRUE]
\* JSON.parse(event.data) returns rather than throws
Parses(frame) == ~Has(frame, "malformed")

\* onmessage: the parsed frame goes to the store
serviceOnMessage(s, frame) ==
  IF Parses(frame) THEN updateTaskProgress(s, frame) ELSE s

----------------------------------------------------------------------------
(* composables/useWebSocket *)

InitComposable == [socket |-> NoSocket, currentTaskId |-> Null,
                   isConnected |-> FALSE, reconnectAttempts |-> 0,
                   reconnectTimer |-> NoTimer]

\* disconnectWebSocket that leaves the reconnect timer armed
disconnectWebSocket_KeepsTimer(w) ==
  LET w2 == IF w.composable.socket # NoSocket
              THEN [w EXCEPT
                      !.sockets = Collect(CloseIfOpen(
                                    DetachHandlers(@, w.composable.socket),
                                    w.composable.socket)),
                      !.composable.socket = NoSocket]
              ELSE w
  IN [w2 EXCEPT !.composable.isConnected = FALSE,
                !.composable.currentTaskId = Null,
                !.composable.reconnectAttempts = 0]

disconnectWebSocket(w) ==
  LET w1 == IF w.composable.reconnectTimer # NoTimer
              THEN [w EXCEPT
                      !.timers = ClearTimeout(@, w.composable.reconnectTimer),
                      !.composable.reconnectTimer = NoTimer]
              ELSE w
      w2 == IF w1.composable.socket # NoSocket
              THEN [w1 EXCEPT
                      !.sockets = Collect(CloseIfOpen(
                                    DetachHandlers(@, w1.composable.socket),
                                    w1.composable.socket)),
                      !.composable.socket = NoSocket]
              ELSE w1
  IN [w2 EXCEPT !.composable.isConnected = FALSE,
                !.composable.currentTaskId = Null,
                !.composable.reconnectAttempts = 0]

connectWebSocket(w, taskId) ==
  IF w.composable.isConnected /\ w.composable.currentTaskId = taskId
    THEN w
    ELSE LET w1 == IF w.composable.socket # NoSocket
                     THEN disconnectWebSocket(w) ELSE w
             id == FreshSocketId(w1)
         IN [w1 EXCEPT
               !.sockets = NewWebSocket(@, id, "useWebSocket", taskId),
               !.composable.socket = id]

\* scheduleReconnect(taskId, onUpdate) of the composable
scheduleReconnectWebSocket(w, taskId) ==
  LET cleared == IF w.composable.reconnectTimer # NoTimer
                   THEN ClearTimeout(w.timers, w.composable.reconnectTimer)
                   ELSE w.timers
      id == FreshTimerId(cleared)
  IN [w EXCEPT !.timers = SetTimeout(cleared, id, "useWebSocket", taskId),
               !.composable.reconnectAttempts = @ + 1,
               !.composable.reconnectTimer = id]

\* the callback of the reconnect timer
composableReconnect(w, taskId) == connectWebSocket(w, taskId)

composableOnOpen(w, taskId) ==
  [w EXCEPT !.composable.isConnected = TRUE,
            !.composable.currentTaskId = taskId,
            !.composable.reconnectAttempts = 0]

\* onclose that goes on scheduling after the last allowed attempt
composableOnClose_Unbounded(w, taskId) ==
  LET w1 == [w EXCEPT !.composable.isConnected = FALSE,
                      !.composable.socket = NoSocket]
  IN IF w1.composable.currentTaskId # Null
       THEN scheduleReconnectWebSocket(w1, taskId)
       ELSE w1

composableOnClose(w, taskId) ==
  LET w1 == [w EXCEPT !.composable.isConnected = FALSE,
                      !.composable.socket = NoSocket]
  IN IF w1.composable.currentTaskId # Null
          /\ w1.composable.reconnectAttempts < maxReconnectAttempts
       THEN scheduleReconnectWebSocket(w1, taskId)
       ELSE w1

composableOnError(w) == [w EXCEPT !.composable.isConnected = FALSE]

\* useTaskProgress.onTaskUpdate, the callback handed to the composable
onTaskUpdate(s, data) == updateTaskProgress(s, data)

\* the frame passes the filter of onmessage
PassesFilter(frame) == StrOr(frame, "type", "") # "connection_established"

composableOnMessage(s, frame) ==
  IF Parses(frame) /\ PassesFilter(frame) THEN onTaskUpdate(s, frame) ELSE s

----------------------------------------------------------------------------
(* Initial store and the history of its messages *)

InitStore ==
  /\ taskStatus = EmptyAgg.taskStatus
  /\ progressMessages = EmptyAgg.progressMessages
  /\ previewImages = EmptyAgg.previewImages
  /\ isGenerating = EmptyAgg.isGenerating
  /\ taskError = EmptyAgg.taskError
  /\ processedMessages = EmptyAgg.processedMessages

\* the (current_step, progress, step_description) fields an event carries
Triple(data) ==
  [f \in DOMAIN data \cap {"current_step", "progress", "step_description"}
     |-> data[f]]

\* the history of the triples behind progressMessages after applying e
TriplesAfter(s, e, triples) ==
  LET t == updateTaskProgress(s, e)
  IN IF t.progressMessages = <<>> THEN <<>>
     ELSE IF Len(t.progressMessages) > Len(s.progressMessages)
       THEN Append(triples, Triple(Unwrap(e)))
     ELSE triples

----------------------------------------------------------------------------
(* stores/client *)

ClientState == [currentTaskId |-> currentTaskId, localStorage |-> localStorage]

\* setCurrentTask that does not write the localStorage item
setCurrentTask_MemoryOnly(c, taskId) == [c EXCEPT !.currentTaskId = taskId]

setCurrentTask(c, taskId) == [currentTaskId |-> taskId, localStorage |-> taskId]

\* clearCurrentTask that leaves the localStorage item in place
clearCurrentTask_MemoryOnly(c) == [c EXCEPT !.currentTaskId = Null]

clearCurrentTask(c) == [currentTaskId |-> Null, localStorage |-> Null]

SetClient(c) ==
  /\ currentTaskId' = c.currentTaskId
  /\ localStorage' = c.localStorage

----------------------------------------------------------------------------
(* composables/useTaskProgress: the connection helper *)

\* initWebSocket returns before connecting
AlreadyConnected(w, taskId) == isConnected(w) /\ getTaskId(w) = taskId

initWebSocket(w, taskId) ==
  IF AlreadyConnected(w, taskId) THEN w
  ELSE connect(IF isConnected(w) THEN disconnect(w) ELSE w, taskId)

----------------------------------------------------------------------------
(* services/api/ppt.api: what each call makes of the HTTP response *)

\* no HTTP response: axios rejects
NetworkError == [networkError |-> TRUE]

Throws == [ok |-> FALSE]
Returns(response) == [ok |-> TRUE, response |-> response]

pptApi_createTask(body) ==
  IF Has(body, "networkError") THEN Throws
  ELSE IF NumOr(body, "code", 0) = 200 /\ ObjOf(body, "data") # NoObj
    THEN Returns(body)
  ELSE IF StrOr(body, "task_id", "") # ""
    THEN Returns([code |-> 200,
                   message |-> StrOr(body, "message", "renwuchuangjianchenggong"),
                   data |-> [task_id |-> body["task_id"],
                             status |-> StrOr(body, "status", "pending")]])
  ELSE Throws

pptApi_getTaskById(body) ==
  IF Has(body, "networkError") THEN Throws
  ELSE IF NumOr(body, "code", 0) = 0 /\ StrOr(body, "task_id", "") # ""
    THEN Returns([code |-> 200, message |-> "huoqurenwuchenggong",
                   data |-> body])
  ELSE IF NumOr(body, "code", 0) = 200 THEN Returns(body)
  ELSE Throws

pptApi_cancelTask(body) ==
  IF Has(body, "networkError") THEN Throws
  ELSE IF NumOr(body, "code", 0) = 0 /\ StrOr(body, "message", "") # ""
    THEN Returns([code |-> 200, message |-> body["message"],
                   data |-> [success |-> TRUE]])
  ELSE IF NumOr(body, "code", 0) = 200 THEN Returns(body)
  ELSE Throws

\* HTTP responses of POST /ppt/generate, the new task being one of taskIds
CreateBodies(taskIds) ==
  {[code |-> 200, message |-> "ok",
    data |-> [task_id |-> taskId, status |-> "pending"]] : taskId \in taskIds}
    \cup {[task_id |-> taskId, status |-> "pending"] : taskId \in taskIds}
    \cup {[code |-> 500, message |-> "error"], NetworkError}

\* task payloads of GET /ppt/tasks/{task_id}
TaskPayloads(taskId) ==
  {[task_id |-> taskId, status |-> "pending"],
   [task_id |-> taskId, status |-> "processing", current_step |-> "plan",
    progress |-> 10, step_description |-> "planning"],
   [task_id |-> taskId, status |-> "completed",
    preview_images |-> <<Img("u1")>>],
   [task_id |-> taskId, status |-> "failed", error |-> ErrBoom],
   [task_id |-> taskId, status |-> "cancelled"]}

\* HTTP responses of GET /ppt/tasks/{task_id}: either format, an envelope
\* without payload, an error, or none
TaskBodies(taskId) ==
  TaskPayloads(taskId)
    \cup {Envelope(e) : e \in TaskPayloads(taskId)}
    \cup {[code |-> 200, message |-> "ok"],
          [code |-> 404, message |-> "error"],
          NetworkError}

\* HTTP responses of DELETE /ppt/tasks/{task_id}
CancelBodies ==
  {[message |-> "cancelled"],
   [code |-> 200, message |-> "ok", data |-> [success |-> TRUE]],
   [code |-> 400, message |-> "error"],
   NetworkError}

----------------------------------------------------------------------------
(* The page: stores, the service, REST calls in flight, mounted components *)

\* components that call useTaskProgress()
BaseComponents == {"HomePage", "GenerationControls", "ChatStyleProgress"}

Page == [agg |-> AggState, client |-> ClientState, w |-> World,
         calls |-> calls, mounted |-> mounted]

\* REST calls whose promise is pending, counted by kind: the endpoint, the
\* task it names and the function that awaits it
NoCalls == [c \in {} |-> 0]

NewCall(api, taskId, then) == [api |-> api, task |-> taskId, then |-> then]

AddCall(pending, c) ==
  IF c \in DOMAIN pending THEN [pending EXCEPT ![c] = @ + 1]
  ELSE Put(pending, c, 1)

RemoveCall(pending, c) ==
  IF pending[c] > 1 THEN [pending EXCEPT ![c] = @ - 1]
  ELSE Remove(pending, c)

RECURSIVE CountCalls(_)
CountCalls(pending) ==
  IF DOMAIN pending = {} THEN 0
  ELSE LET c == CHOOSE k \in DOMAIN pending : TRUE
       IN pending[c] + CountCalls(Remove(pending, c))

IssueCall(p, api, taskId, then) ==
  [p EXCEPT !.calls = AddCall(@, NewCall(api, taskId, then))]

\* HomePage: the download panel is rendered
taskCompleted(s) == s.taskStatus = "completed" /\ s.taskError = NoObj

\* GenerationControls / ChatStyleProgress computed properties
hasFailed(s) == s.taskStatus = "failed"
showCancelButton(s) == (s.isGenerating /\ ~hasFailed(s)) \/ hasFailed(s)
hasDetailedError(s) ==
  /\ hasFailed(s)
  /\ s.taskError # NoObj
  /\ Has(s.taskError, "has_error") /\ s.taskError["has_error"]
showRetryButton(s) ==
  /\ hasDetailedError(s)
  /\ Has(s.taskError, "can_retry") /\ s.taskError["can_retry"]

\* useTaskProgress: the onUnmounted hook
onUnmounted(p) == IF isConnected(p.w) THEN [p EXCEPT !.w = disconnect(@)] ELSE p

\* useTaskProgress: the onMounted hook up to its await
onMounted(p) ==
  IF p.client.currentTaskId # Null
    THEN IssueCall(p, "getTaskById", p.client.currentTaskId, "onMounted")
    ELSE p

\* the body of getTaskStatus and the hook's then-callback, after the await
onMountedResumes(p, taskId, r) ==
  LET ok == r.ok /\ Has(r.response, "data")
      p1 == IF ok THEN [p EXCEPT !.agg = updateTaskProgress(@, r.response.data)]
            ELSE p
  IN IF ok /\ StrOr(r.response.data, "status", "") \in {"pending", "processing"}
       THEN [p1 EXCEPT
               !.w = initWebSocket(@, taskId),
               !.client = IF AlreadyConnected(p1.w, taskId) THEN @
                          ELSE setCurrentTask(@, taskId)]
       ELSE p1

\* the hooks of n child components
RECURSIVE MountChildren(_, _)
MountChildren(p, n) ==
  IF n = 0 THEN p ELSE MountChildren(onMounted(p), n - 1)

\* v-if="taskCompleted": the panel is removed as soon as the condition fails
Render(p) ==
  IF "DownloadPanel" \in p.mounted /\ ~taskCompleted(p.agg)
    THEN onUnmounted([p EXCEPT !.mounted = @ \ {"DownloadPanel"}])
    ELSE p

createPptTask(p, hasTemplate, hasMarkdown) ==
  IF ~hasTemplate \/ ~hasMarkdown THEN p
  ELSE IssueCall(p, "createTask", Null, "createPptTask")

\* a createPptTask whose catch block marks the task as under way
createPptTaskResumes_MarksFailure(p, r) ==
  IF ~r.ok
    THEN [p EXCEPT !.agg = setIsGenerating(setTaskStatus(@, "processing"), TRUE)]
    ELSE [p EXCEPT
            !.client = setCurrentTask(@, r.response.data.task_id),
            !.agg = setIsGenerating(setTaskStatus(@, "processing"), TRUE),
            !.w = connect(@, r.response.data.task_id)]

createPptTaskResumes(p, r) ==
  IF ~r.ok THEN p
  ELSE LET taskId == r.response.data.task_id
       IN [p EXCEPT
             !.client = setCurrentTask(@, taskId),
             !.agg = setIsGenerating(setTaskStatus(@, "processing"), TRUE),
             !.w = connect(@, taskId)]

cancelTask(p) ==
  IF p.client.currentTaskId = Null THEN p
  ELSE IssueCall(p, "cancelTask", p.client.currentTaskId, "cancelTask")

cancelTaskResumes(p, r) ==
  IF ~r.ok THEN p
  ELSE [p EXCEPT
          !.w = disconnect(@),
          !.agg = setIsGenerating(setTaskStatus(@, "cancelled"), FALSE)]

initTaskProgress(p) ==
  IF p.client.currentTaskId = Null THEN p
  ELSE IssueCall(p, "getTaskById", p.client.currentTaskId, "initTaskProgress")

initTaskProgressResumes(p, taskId, r) ==
  IF ~r.ok \/ ~Has(r.response, "data")
    THEN [p EXCEPT !.client = clearCurrentTask(@)]
    ELSE LET taskData == r.response.data
             st == StrOr(taskData, "status", "")
             p1 == IF st \in {"processing", "pending"}
                     THEN [p EXCEPT
                             !.agg = setIsGenerating(setTaskStatus(@, st), TRUE),
                             !.w = connect(@, taskId)]
                   ELSE IF st \in {"completed", "failed"}
                     THEN [p EXCEPT
                             !.agg = setIsGenerating(setTaskStatus(@, st), FALSE)]
                   ELSE p
         IN [p1 EXCEPT !.agg = updateTaskProgress(@, taskData)]

\* HomePage.startGeneration
startGeneration(p) ==
  createPptTask([p EXCEPT !.agg = resetProgress(@)], TRUE, TRUE)

\* GenerationControls.handleCancel
handleCancel(p) ==
  IF hasFailed(p.agg) THEN [p EXCEPT !.agg = resetProgress(@)]
  ELSE IF p.agg.taskStatus \in {"processing", "pending"}
    THEN cancelTask(p)
  ELSE [p EXCEPT !.agg = resetProgress(@)]

\* DownloadPanel.handleNewTask
handleNewTask(p) ==
  [p EXCEPT !.client = clearCurrentTask(@), !.agg = resetProgress(@)]

\* ChatStyleProgress.handleRetry
handleRetry(p, hasTemplate, hasMarkdown) ==
  IF hasFailed(p.agg)
    THEN createPptTask([p EXCEPT !.agg = resetProgress(@)],
                       hasTemplate, hasMarkdown)
    ELSE p

----------------------------------------------------------------------------
(* The push channel: either manager, the browser and the server's frames *)

\* frames the server sends on a task's channel
ConnFrames ==
  {[status |-> "processing", current_step |-> "plan", progress |-> 10,
    step_description |-> "planning"],
   [type |-> "connection_established"],
   Malformed}

SetWorld(w) ==
  /\ service' = w.service
  /\ composable' = w.composable
  /\ sockets' = w.sockets
  /\ timers' = w.timers

SetPage(p) ==
  /\ SetAgg(p.agg)
  /\ SetClient(p.client)
  /\ SetWorld(p.w)
  /\ calls' = p.calls
  /\ mounted' = p.mounted

\* the history of the triples behind progressMessages once the store is s,
\* data being the event that was applied, if any
TriplesFor(s, data) ==
  IF s.progressMessages = <<>> THEN <<>>
  ELSE IF Len(s.progressMessages) > Len(messageTriples)
    THEN Append(messageTriples, Triple(Unwrap(data)))
  ELSE messageTriples

\* closures: onclose runs since the last onopen or operation of the page; attemptsMade: connections made
\* by the reconnect timer since the last onopen; delivered: calls of the event
\* callback for the last frame; sameOpen: the last connect named the task of a
\* connection that was open; droppedOpen: the socket closed last was open;
\* scheduled: the last closure scheduled a reconnection; cancelledTimer: the
\* last disconnect found a timer armed
InitConnHist == [closures |-> 0, attemptsMade |-> 0, delivered |-> 0,
                 sameOpen |-> FALSE, droppedOpen |-> FALSE,
                 scheduled |-> FALSE, cancelledTimer |-> FALSE]

InitBrowser ==
  /\ sockets = <<>>
  /\ timers = {}
  /\ service = InitService
  /\ composable = InitComposable

InitClientStore ==
  /\ currentTaskId = Null
  /\ localStorage = Null

\* the client store exists: its clientId ref holds the identifier that
\* getClientId generated and stored
InitIdentity ==
  /\ clientIdItem = "c1"
  /\ clientId = "c1"

InitConn ==
  /\ InitStore
  /\ InitClientStore
  /\ InitIdentity
  /\ InitBrowser
  /\ driven \in {"WebSocketService", "useWebSocket"}
  /\ calls = NoCalls
  /\ mounted = {}
  /\ lastOp = "init"
  /\ lastEvent = NoObj
  /\ messageTriples = <<>>
  /\ connHist = InitConnHist

\* new WebSocket can hand out an object
CanConnect ==
  (1..MaxSockets) \ (DOMAIN sockets \cup {service.socket, composable.socket})
    # {}

\* sockets that take handlers' events
Live(socks) ==
  {id \in DOMAIN socks :
     socks[id].attached /\ socks[id].readyState \in {"CONNECTING", "OPEN"}}

\* an open connection with handlers exists for the task
OpenOn(socks, taskId) ==
  \E id \in Live(socks) :
    socks[id].readyState = "OPEN" /\ socks[id].task = taskId

Connect(taskId) ==
  /\ CanConnect
  /\ SetWorld(IF driven = "WebSocketService"
                THEN connect(World, taskId)
                ELSE connectWebSocket(World, taskId))
  /\ connHist' = [connHist EXCEPT !.sameOpen = OpenOn(sockets, taskId),
                                  !.droppedOpen = FALSE,
                                  !.cancelledTimer = FALSE]
  /\ lastOp' = "connect"
  /\ lastEvent' = NoObj
  /\ UNCHANGED <<aggVars, clientVars, ctlVars, driven, idVars, messageTriples>>

InitWebSocket(taskId) ==
  /\ driven = "WebSocketService"
  /\ CanConnect
  /\ SetWorld(initWebSocket(World, taskId))
  /\ IF AlreadyConnected(World, taskId)
       THEN UNCHANGED clientVars
       ELSE SetClient(setCurrentTask(ClientState, taskId))
  /\ connHist' = [connHist EXCEPT !.sameOpen = OpenOn(sockets, taskId),
                                  !.droppedOpen = FALSE,
                                  !.cancelledTimer = FALSE]
  /\ lastOp' = "connect"
  /\ lastEvent' = NoObj
  /\ UNCHANGED <<aggVars, ctlVars, driven, idVars, messageTriples>>

Disconnect ==
  /\ SetWorld(IF driven = "WebSocketService"
                THEN disconnect(World)
                ELSE disconnectWebSocket(World))
  /\ connHist' = [connHist EXCEPT !.sameOpen = FALSE,
                                  !.droppedOpen = FALSE,
                                  !.cancelledTimer = (timers # {})]
  /\ lastOp' = "disconnect"
  /\ lastEvent' = NoObj
  /\ UNCHANGED <<aggVars, clientVars, ctlVars, driven, idVars, messageTriples>>

\* the handshake completes: the open event
SocketOpen(id) ==
  /\ id \in DOMAIN sockets
  /\ sockets[id].readyState = "CONNECTING"
  /\ LET sk == sockets[id]
         w1 == [World EXCEPT !.sockets[id].readyState = "OPEN"]
     IN SetWorld(IF ~sk.attached THEN w1
                 ELSE IF sk.owner = "WebSocketService" THEN serviceOnOpen(w1)
                 ELSE composableOnOpen(w1, sk.task))
  /\ connHist' = [connHist EXCEPT !.closures = 0, !.attemptsMade = 0,
                                  !.droppedOpen = FALSE,
                                  !.cancelledTimer = FALSE]
  /\ lastOp' = "onopen"
  /\ lastEvent' = NoObj
  /\ UNCHANGED <<aggVars, clientVars, ctlVars, driven, idVars, messageTriples>>

\* the server or the network ends the connection: the close event, after an
\* error event when the connection failed
SocketClose(id, failed) ==
  /\ id \in DOMAIN sockets
  /\ connHist.closures < MaxClosures
  /\ Cardinality(timers) < MaxTimers
  /\ LET sk == sockets[id]
         w1 == [World EXCEPT !.sockets = Remove(@, id)]
         w2 == IF failed /\ sk.attached /\ sk.owner = "useWebSocket"
                 THEN composableOnError(w1) ELSE w1
         w3 == IF ~sk.attached THEN w2
               ELSE IF sk.owner = "WebSocketService" THEN serviceOnClose(w2)
               ELSE composableOnClose(w2, sk.task)
     IN /\ SetWorld(w3)
        /\ connHist' = [connHist EXCEPT
                          !.closures = @ + 1,
                          !.sameOpen = FALSE,
                          !.droppedOpen = (sk.readyState = "OPEN"),
                          !.scheduled =
                            \/ w3.service.reconnectAttempts
                                 > service.reconnectAttempts
                            \/ w3.composable.reconnectAttempts
                                 > composable.reconnectAttempts,
                          !.cancelledTimer = FALSE]
  /\ lastOp' = "onclose"
  /\ lastEvent' = NoObj
  /\ UNCHANGED <<aggVars, clientVars, ctlVars, driven, idVars, messageTriples>>

\* open sockets the server reaches when it broadcasts on a task's channel
Receivers(socks, taskId) ==
  {id \in DOMAIN socks :
     socks[id].readyState = "OPEN" /\ socks[id].task = taskId}

\* the message event runs the callback of this socket
Delivers(sk, frame) ==
  /\ sk.attached
  /\ Parses(frame)
  /\ sk.owner = "useWebSocket" => PassesFilter(frame)

\* the message event raised on each receiving socket in turn
RECURSIVE RunOnMessage(_, _, _, _)
RunOnMessage(s, socks, ids, frame) ==
  IF ids = {} THEN s
  ELSE LET id == Min(ids)
           t == IF ~socks[id].attached THEN s
                ELSE IF socks[id].owner = "WebSocketService"
                  THEN serviceOnMessage(s, frame)
                ELSE composableOnMessage(s, frame)
       IN RunOnMessage(t, socks, ids \ {id}, frame)

Broadcast(taskId, frame) ==
  LET ids == Receivers(sockets, taskId)
      n == Cardinality({id \in ids : Delivers(sockets[id], frame)})
      s == RunOnMessage(AggState, sockets, ids, frame)
  IN /\ ids # {}
     /\ Len(s.progressMessages) <= MaxMsgs
     /\ SetPage(Render([Page EXCEPT !.agg = s]))
     /\ messageTriples' = IF n > 0 THEN TriplesFor(s, frame)
                          ELSE messageTriples
     /\ connHist' = [connHist EXCEPT !.delivered = n, !.droppedOpen = FALSE,
                                     !.cancelledTimer = FALSE]
     /\ lastOp' = "onmessage"
     /\ lastEvent' = frame
     /\ UNCHANGED <<driven, idVars>>

\* a reconnect timer fires
TimerFire(t) ==
  /\ t \in timers
  /\ CanConnect
  /\ LET w1 == [World EXCEPT !.timers = @ \ {t}]
         w2 == IF t.owner = "WebSocketService" THEN serviceReconnect(w1)
               ELSE composableReconnect(w1, t.task)
     IN /\ SetWorld(w2)
        /\ connHist' = [connHist EXCEPT
                          !.attemptsMade = IF w2.sockets # w1.sockets
                                             THEN @ + 1 ELSE @,
                          !.sameOpen = FALSE, !.droppedOpen = FALSE,
                          !.cancelledTimer = FALSE]
  /\ lastOp' = "reconnect"
  /\ lastEvent' = NoObj
  /\ UNCHANGED <<aggVars, clientVars, ctlVars, driven, idVars, messageTriples>>

NextConn ==
  \/ \E taskId \in Tasks : Connect(taskId)
  \/ \E taskId \in Tasks : InitWebSocket(taskId)
  \/ Disconnect
  \/ \E id \in 1..MaxSockets : SocketOpen(id)
  \/ \E id \in 1..MaxSockets, failed \in BOOLEAN : SocketClose(id, failed)
  \/ \E taskId \in Tasks, frame \in ConnFrames : Broadcast(taskId, frame)
  \/ \E t \in timers : TimerFire(t)

SpecConn == InitConn /\ [][NextConn]_vars

----------------------------------------------------------------------------
(* The running client: the page, its user, the REST server and the channel *)

\* frames the server sends on a task's channel
ClientFrames ==
  {[status |-> "processing", current_step |-> "plan", progress |-> 10,
    step_description |-> "planning"],
   [status |-> "completed", preview_url |-> "u1"],
   [status |-> "failed", error |-> ErrBoom],
   [type |-> "connection_established"]}

\* the page right after it has loaded, before its components are mounted
LoadedPage ==
  [agg |-> EmptyAgg,
   client |-> [currentTaskId |-> localStorage, localStorage |-> localStorage],
   w |-> [service |-> InitService, composable |-> InitComposable,
          sockets |-> <<>>, timers |-> {}],
   calls |-> NoCalls,
   mounted |-> BaseComponents]

Init ==
  /\ InitStore
  /\ InitClientStore
  /\ InitIdentity
  /\ InitBrowser
  /\ driven = "WebSocketService"
  /\ calls = NoCalls
  /\ mounted = BaseComponents
  /\ lastOp = "init"
  /\ lastEvent = NoObj
  /\ messageTriples = <<>>
  /\ connHist = InitConnHist

\* the operation ran to its end (or to its await) and the view followed
Commit(p, op, data, triples) ==
  /\ Len(p.agg.progressMessages) <= MaxMsgs
  /\ SetPage(Render(p))
  /\ messageTriples' = triples
  /\ lastOp' = op
  /\ lastEvent' = data
  /\ UNCHANGED <<driven, idVars>>

CanCall == CountCalls(calls) < MaxCalls

\* task ids the server has not handed out, as far as the page can tell
NewTaskIds ==
  Tasks \ ({currentTaskId, localStorage}
             \cup {sockets[id].task : id \in DOMAIN sockets}
             \cup {c.task : c \in DOMAIN calls})

\* the page is reloaded: memory is lost, localStorage is kept; HomePage is
\* mounted (the hook of its useTaskProgress, then initTaskProgress) and so
\* are GenerationControls and ChatStyleProgress (their hooks)
PageLoad ==
  /\ Commit(MountChildren(initTaskProgress(onMounted(LoadedPage)),
                          MaxChildHooks),
            "load", NoObj, <<>>)
  /\ connHist' = InitConnHist

\* the download panel is rendered once the task has completed
MountDownloadPanel ==
  /\ "DownloadPanel" \notin mounted
  /\ taskCompleted(AggState)
  /\ CanCall
  /\ Commit(onMounted([Page EXCEPT !.mounted = @ \cup {"DownloadPanel"}]),
            "mount", NoObj, messageTriples)
  /\ connHist' = InitConnHist

\* the generate button
StartGeneration ==
  /\ "GenerationControls" \in mounted
  /\ ~isGenerating
  /\ CanCall
  /\ Commit(startGeneration(Page), "startGeneration", NoObj, <<>>)
  /\ connHist' = InitConnHist

\* the cancel / restart button
HandleCancel ==
  /\ "GenerationControls" \in mounted
  /\ showCancelButton(AggState)
  /\ CanCall
  /\ Commit(handleCancel(Page), "handleCancel", NoObj,
            TriplesFor(handleCancel(Page).agg, NoObj))
  /\ connHist' = InitConnHist

\* the new-task button of the download panel
HandleNewTask ==
  /\ "DownloadPanel" \in mounted
  /\ Commit(handleNewTask(Page), "handleNewTask", NoObj, <<>>)
  /\ connHist' = InitConnHist

\* the retry button of the error card
HandleRetry(hasTemplate, hasMarkdown) ==
  /\ "ChatStyleProgress" \in mounted
  /\ showRetryButton(AggState)
  /\ CanCall
  /\ Commit(handleRetry(Page, hasTemplate, hasMarkdown), "handleRetry",
            [hasTemplate |-> hasTemplate, hasMarkdown |-> hasMarkdown], <<>>)
  /\ connHist' = InitConnHist

Settle(c) == [Page EXCEPT !.calls = RemoveCall(@, c)]

\* the task and status a task fetch came back with, NoObj when it failed
Fetched(r) ==
  IF r.ok /\ Has(r.response, "data")
    THEN [task_id |-> StrOr(r.response.data, "task_id", ""),
          status |-> StrOr(r.response.data, "status", "")]
    ELSE NoObj

\* the history of the triples behind progressMessages once a fetch went
\* through the store
FetchedTriples(s, r) ==
  IF r.ok /\ Has(r.response, "data") THEN TriplesFor(s, r.response.data)
  ELSE messageTriples

\* POST /ppt/generate is answered
CreatePptTaskResumes(c, body) ==
  /\ c \in DOMAIN calls /\ c.then = "createPptTask"
  /\ CanConnect
  /\ Commit(createPptTaskResumes(Settle(c), pptApi_createTask(body)),
            "createPptTask", [ok |-> pptApi_createTask(body).ok],
            messageTriples)
  /\ connHist' = InitConnHist

\* DELETE /ppt/tasks/{task_id} is answered
CancelTaskResumes(c, body) ==
  /\ c \in DOMAIN calls /\ c.then = "cancelTask"
  /\ Commit(cancelTaskResumes(Settle(c), pptApi_cancelTask(body)),
            "cancelTask", [ok |-> pptApi_cancelTask(body).ok],
            messageTriples)
  /\ connHist' = InitConnHist

\* GET /ppt/tasks/{task_id} of a mount hook is answered
OnMountedResumes(c, body) ==
  /\ c \in DOMAIN calls /\ c.then = "onMounted"
  /\ CanConnect
  /\ Commit(onMountedResumes(Settle(c), c.task, pptApi_getTaskById(body)),
            "onMounted", Fetched(pptApi_getTaskById(body)),
            FetchedTriples(onMountedResumes(Settle(c), c.task,
                             pptApi_getTaskById(body)).agg,
                           pptApi_getTaskById(body)))
  /\ connHist' = InitConnHist

\* GET /ppt/tasks/{task_id} of initTaskProgress is answered
InitTaskProgressResumes(c, body) ==
  /\ c \in DOMAIN calls /\ c.then = "initTaskProgress"
  /\ CanConnect
  /\ Commit(initTaskProgressResumes(Settle(c), c.task,
                                    pptApi_getTaskById(body)),
            "initTaskProgress", Fetched(pptApi_getTaskById(body)),
            FetchedTriples(initTaskProgressResumes(Settle(c), c.task,
                             pptApi_getTaskById(body)).agg,
                           pptApi_getTaskById(body)))
  /\ connHist' = InitConnHist

Next ==
  \/ PageLoad
  \/ MountDownloadPanel
  \/ StartGeneration
  \/ HandleCancel
  \/ HandleNewTask
  \/ \E hasTemplate, hasMarkdown \in BOOLEAN :
       HandleRetry(hasTemplate, hasMarkdown)
  \/ \E c \in DOMAIN calls, body \in CreateBodies(NewTaskIds) :
       CreatePptTaskResumes(c, body)
  \/ \E c \in DOMAIN calls, body \in CancelBodies : CancelTaskResumes(c, body)
  \/ \E c \in DOMAIN calls : \E body \in TaskBodies(c.task) :
       OnMountedResumes(c, body)
  \/ \E c \in DOMAIN calls : \E body \in TaskBodies(c.task) :
       InitTaskProgressResumes(c, body)
  \/ \E id \in 1..MaxSockets : SocketOpen(id)
  \/ \E id \in 1..MaxSockets, failed \in BOOLEAN : SocketClose(id, failed)
  \/ \E taskId \in Tasks, frame \in ClientFrames : Broadcast(taskId, frame)

Spec == Init /\ [][Next]_vars

----------------------------------------------------------------------------
(* The aggregator alone, fed arbitrary events *)

InitAgg ==
  /\ InitStore
  /\ InitClientStore
  /\ InitIdentity
  /\ InitBrowser
  /\ driven = "WebSocketService"
  /\ calls = NoCalls
  /\ mounted = {}
  /\ lastOp = "init"
  /\ lastEvent = NoObj
  /\ messageTriples = <<>>
  /\ connHist = InitConnHist

UpdateTaskProgress(e) ==
  /\ Len(updateTaskProgress(AggState, e).progressMessages) <= MaxMsgs
  /\ SetAgg(updateTaskProgress(AggState, e))
  /\ messageTriples' = TriplesAfter(AggState, e, messageTriples)
  /\ lastOp' = "updateTaskProgress"
  /\ lastEvent' = e
  /\ UNCHANGED <<clientVars, connVars, ctlVars, connHist, idVars>>

ResetProgress ==
  /\ SetAgg(resetProgress(AggState))
  /\ messageTriples' = <<>>
  /\ lastOp' = "resetProgress"
  /\ lastEvent' = NoObj
  /\ UNCHANGED <<clientVars, connVars, ctlVars, connHist, idVars>>

NextAgg ==
  \/ \E e \in Events : UpdateTaskProgress(e)
  \/ ResetProgress

SpecAgg == InitAgg /\ [][NextAgg]_vars

----------------------------------------------------------------------------
(* Claims about the aggregator *)

Count(seq, x) == Cardinality({i \in 1..Len(seq) : seq[i] = x})

NoDuplicates(seq) == \A i, j \in 1..Len(seq) : seq[i] = seq[j] => i = j

EventStatus(e) == StrOr(Unwrap(e), "status", "")

\* what a completed event may carry besides its status
CompletedEvents ==
  { [status |-> "completed"] @@ a @@ b @@ c @@ d :
      a \in {<<>>, [current_step |-> "unknown", progress |-> 0],
             [current_step |-> "plan", progress |-> 10]},
      b \in Opt("step_description", {"planning", "yiwancheng"}),
      c \in Opt("error", {ErrBoom, ErrNone}),
      d \in PreviewVariants }

SameOutcome(s, t) ==
  /\ t.taskStatus = s.taskStatus
  /\ t.taskError = s.taskError
  /\ t.progressMessages = s.progressMessages
  /\ t.previewImages = s.previewImages

\* C1 (terminal stickiness): in every reachable state whose status is failed,
\* applying any completed event, bare or enveloped, leaves status, error,
\* messages and previews as they are, whatever step description, error object
\* or preview references the event carries.
C1_TerminalStickiness ==
  taskStatus = "failed"
    => \A e \in CompletedEvents :
         /\ SameOutcome(AggState, updateTaskProgress(AggState, e))
         /\ SameOutcome(AggState, updateTaskProgress(AggState, Envelope(e)))

\* C1 witness: a completed event carrying previews was applied to a failed
\* task that already holds a message
C1_Witness ==
  /\ taskStatus = "failed"
  /\ lastOp = "updateTaskProgress"
  /\ EventStatus(lastEvent) = "completed"
  /\ Has(Unwrap(lastEvent), "preview_images")
  /\ Len(progressMessages) > 0

\* events that carry a step description, with or without a status and a step
DescribedEvents ==
  { a @@ b @@ c :
      a \in Opt("status", {"processing", "completed", "failed"}),
      b \in {<<>>, [current_step |-> "unknown", progress |-> 0],
             [current_step |-> "plan", progress |-> 10]},
      c \in {"step_description" :> v : v \in {"planning", "yiwancheng"}} }

\* messages appended for a dedup key / for a triple
KeyCount(triples, k) ==
  Cardinality({i \in 1..Len(triples) : generateMessageKey(triples[i]) = k})

\* the triples behind the messages after applying e1 and then e2
TriplesAfterBoth(e1, e2) ==
  TriplesAfter(updateTaskProgress(AggState, e1), e2,
               TriplesAfter(AggState, e1, messageTriples))

\* the event is turned away by one of the two failed-state rules
Rejected(s, e) ==
  \/ IgnoresCompleted(s, Unwrap(e))
  \/ SkipsCompletion(StatusStep(s, Unwrap(e)), Unwrap(e))

\* pairs of described events with the same triple (their status may differ)
SameTriplePairs ==
  { p \in DescribedEvents \X DescribedEvents : Triple(p[1]) = Triple(p[2]) }

PreviewCarriers ==
  { a @@ b : a \in Opt("status", Statuses), b \in PreviewVariants \ {<<>>} }

\* the URLs an event refers to
UrlsOf(data) ==
  (IF StrOr(data, "preview_url", "") # "" THEN {data["preview_url"]} ELSE {})
  \cup (IF Has(data, "preview_images")
          THEN { data["preview_images"][i]["preview_url"] :
                   i \in { j \in 1..Len(data["preview_images"]) :
                             Has(data["preview_images"][j], "preview_url") } }
          ELSE {})

\* the event reaches the preview block and enters it
AdmitsPreviews(s, data) ==
  /\ ~IgnoresCompleted(s, data)
  /\ \/ StrOr(data, "preview_url", "") # ""
     \/ /\ StrOr(data, "status", "") = "completed"
        /\ ErrorStep(StatusStep(s, data), data).taskError = NoObj

\* C3 (preview dedup): no URL occurs twice in previewImages, in any reachable
\* state and after any further event with preview references (the same URL
\* twice in one event, or once as preview_url and once in preview_images,
\* included); an admitted event leaves each URL it refers to in exactly one
\* entry, so two admitted events with different URLs yield two entries.
C3_PreviewDedup ==
  /\ NoDuplicates(previewImages)
  /\ \A e \in PreviewCarriers :
       LET t == updateTaskProgress(AggState, e)
       IN /\ NoDuplicates(t.previewImages)
          /\ AdmitsPreviews(AggState, e)
               => \A u \in UrlsOf(e) : Count(t.previewImages, u) = 1

\* C3 witness: two URLs are held, and the last event named "u1" twice (as
\* preview_url and inside preview_images) when "u2" had been admitted before
C3_Witness ==
  /\ previewImages = <<"u2", "u1">>
  /\ lastOp = "updateTaskProgress"
  /\ StrOr(Unwrap(lastEvent), "preview_url", "") = "u1"
  /\ Has(Unwrap(lastEvent), "preview_images")

----------------------------------------------------------------------------
(* Claims about the push channel *)

\* C6 as stated (reconnect after drop in WebSocketService): when a socket
\* that connect(taskId) created and that had opened is closed by the server
\* or the network, and fewer than maxReconnectAttempts reconnections have
\* been made, a reconnect timer of the service is armed.
C6_ReconnectAfterDrop ==
  (/\ driven = "WebSocketService"
   /\ lastOp = "onclose"
   /\ connHist.droppedOpen
   /\ connHist.attemptsMade < maxReconnectAttempts)
    => \E t \in timers : t.owner = "WebSocketService"

\* C7 as stated (reconnect bound in useWebSocket): once 5 closures in a row
\* have happened with no successful open in between, no reconnect timer is
\* armed and isConnected is false; in particular when every reconnection in
\* between was the manager's own.
C7_StopsAfterFiveClosures ==
  (/\ driven = "useWebSocket"
   /\ connHist.closures >= maxReconnectAttempts
   /\ connHist.attemptsMade = connHist.closures - 1)
    => (timers = {} /\ ~composable.isConnected)

\* C7 as amended: the attempt counter and the reconnections made since the
\* last successful open never exceed 5; a closure that is the sixth or a
\* later one in a row with no successful open in between schedules nothing
\* and leaves isConnected false; once the 5 reconnections have been made and
\* the sixth closure has happened, no reconnect timer is armed.
C7_ReconnectBound ==
  driven = "useWebSocket"
    => /\ connHist.attemptsMade <= maxReconnectAttempts
       /\ composable.reconnectAttempts <= maxReconnectAttempts
       /\ (lastOp = "onclose" /\ connHist.closures > maxReconnectAttempts)
            => (~connHist.scheduled /\ ~composable.isConnected)
       /\ (/\ connHist.closures > maxReconnectAttempts
           /\ connHist.attemptsMade = maxReconnectAttempts)
            => (timers = {} /\ ~composable.isConnected)

\* C7 witness: the sixth closure in a row, after five reconnections
C7_Witness ==
  /\ driven = "useWebSocket"
  /\ lastOp = "onclose"
  /\ connHist.closures = maxReconnectAttempts + 1
  /\ connHist.attemptsMade = maxReconnectAttempts
  /\ composable.reconnectAttempts = maxReconnectAttempts

\* sockets whose handlers are attached
Attached(socks) == {id \in DOMAIN socks : socks[id].attached}

\* the frame is a progress event for the manager that receives it
IsProgressFrame(frame) ==
  Parses(frame) /\ (driven = "useWebSocket" => PassesFilter(frame))

Idle(w) ==
  /\ w.service = InitService
  /\ w.composable = InitComposable
  /\ w.timers = {}
  /\ DOMAIN w.sockets = {}

\* disconnect of the manager the page drives
DrivenDisconnect(w) ==
  IF driven = "WebSocketService" THEN disconnect(w) ELSE disconnectWebSocket(w)

\* C9 (disconnect): right after disconnect the manager is idle (no socket, no
\* timer id, no task id, attempt counter 0, not connected), no timer is armed
\* and no socket with handlers is left, so neither a handler nor a reconnect
\* can run; from every reachable state disconnect yields that idle state, and
\* a second disconnect changes nothing.
C9_Disconnect ==
  /\ lastOp = "disconnect" => Idle(World)
  /\ Idle(DrivenDisconnect(World))
  /\ DrivenDisconnect(DrivenDisconnect(World)) = DrivenDisconnect(World)

\* C9 witness: disconnect ran while a reconnect timer was armed
C9_Witness ==
  /\ lastOp = "disconnect"
  /\ connHist.cancelledTimer
  /\ Idle(World)

----------------------------------------------------------------------------
(* Claims about the running client *)

\* C4 as stated (active flag): in every reachable state of the running
\* client the flag isGenerating is true exactly when taskStatus is pending
\* or processing.
C4_ActiveFlag == isGenerating <=> taskStatus \in {"pending", "processing"}

\* C5 as stated (cancellation): when cancelTask has run to its end for a
\* current task, whether the REST call succeeded or failed, no socket with
\* handlers and no reconnect timer is left, the status is cancelled and the
\* flag isGenerating is false.
C5_CancelTearsDown ==
  lastOp = "cancelTask"
    => /\ Attached(sockets) = {}
       /\ service.socket = NoSocket
       /\ timers = {}
       /\ taskStatus = "cancelled"
       /\ ~isGenerating

\* C10 as stated (resume after reload): when initTaskProgress has run to its
\* end on a fetched task, the store holds the fetched status; if that status
\* is pending or processing a socket with handlers exists for the task and
\* isGenerating is true; otherwise no socket with handlers exists and
\* isGenerating is false.
C10_ResumeAfterReload ==
  (lastOp = "initTaskProgress" /\ lastEvent # NoObj)
    => /\ taskStatus = lastEvent["status"]
       /\ lastEvent["status"] \in {"pending", "processing"}
            => /\ isGenerating
               /\ \E id \in Live(sockets) :
                    sockets[id].task = lastEvent["task_id"]
       /\ lastEvent["status"] \notin {"pending", "processing"}
            => /\ ~isGenerating
               /\ Attached(sockets) = {}

----------------------------------------------------------------------------
(* The end-to-end scenario of the sticky failure *)

\* the frames of the scenario, in their order of arrival
E2E_Planning ==
  [status |-> "processing", progress |-> 10, step_description |-> "planning"]
E2E_Failed ==
  [status |-> "failed",
   error |-> [error_message |-> "boom", can_retry |-> TRUE]]
\* the late completed frame, alone or with what a completion carries
E2E_LateCompleted ==
  { [status |-> "completed"] @@ b @@ d :
      b \in Opt("step_description", {"yiwancheng"}),
      d \in PreviewVariants }

\* the message events of the frames, one after the other, on the service's
\* socket
RECURSIVE ReceiveAll(_, _)
ReceiveAll(s, frames) ==
  IF frames = <<>> THEN s
  ELSE ReceiveAll(serviceOnMessage(s, Head(frames)), Tail(frames))

\* messages whose text is m
MessagesSaying(msgs, m) == {i \in 1..Len(msgs) : msgs[i].message = m}

\* C11 (sticky failure end to end): when createPptTask has returned a task
\* and nothing else has reached the store since the generation was started,
\* receiving the planning frame, the same frame again, the failed frame with
\* error message boom and then a late completed frame ends with status
\* failed, exactly one planning message, error message boom, and the previews
\* as they were when the failure arrived.
C11_StickyFailureEndToEnd ==
  (lastOp = "createPptTask" /\ lastEvent["ok"] /\ progressMessages = <<>>)
    => \A late \in E2E_LateCompleted :
         LET failedAt == ReceiveAll(AggState,
                                    <<E2E_Planning, E2E_Planning, E2E_Failed>>)
             final == ReceiveAll(failedAt, <<late>>)
         IN /\ final.taskStatus = "failed"
            /\ Cardinality(MessagesSaying(final.progressMessages, "planning")) = 1
            /\ final.taskError = E2E_Failed["error"]
            /\ final.taskError["error_message"] = "boom"
            /\ final.previewImages = failedAt.previewImages
            /\ final.progressMessages = failedAt.progressMessages

\* C11 witness: in the running client a late completed frame arrived on the
\* task's socket after the planning frame and the failed frame
C11_Witness ==
  /\ lastOp = "onmessage"
  /\ EventStatus(lastEvent) = "completed"
  /\ currentTaskId # Null
  /\ taskStatus = "failed"
  /\ taskError = ErrBoom
  /\ Cardinality(MessagesSaying(progressMessages, "planning")) = 1
  /\ previewImages = <<>>

----------------------------------------------------------------------------
(* Claims about the error and the previews of the aggregator *)

\* C12 as stated (error only while failed): in every reachable state of the
\* aggregator a stored taskError implies that taskStatus is failed, whatever
\* events were applied, events that carry an error object together with a
\* status other than failed included.
C12_ErrorOnlyWhileFailed == taskError # NoObj => taskStatus = "failed"

----------------------------------------------------------------------------
(* Claims about the creation of a task *)

C14_CreateSuccess ==
  (lastOp = "createPptTask" /\ lastEvent["ok"])
    => /\ currentTaskId \in Tasks
       /\ localStorage = currentTaskId
       /\ progressMessages = <<>>
       /\ previewImages = <<>>
       /\ taskError = NoObj
       /\ taskStatus = "processing"
       /\ isGenerating
       /\ Attached(sockets) = {service.socket}
       /\ service.socket \in Live(sockets)
       /\ sockets[service.socket].task = currentTaskId

----------------------------------------------------------------------------
(* Claims about cancellation and the switch between tasks *)

\* the step applies something that was under way for the current task: a
\* frame, a reconnection, or the answer to a status fetch for that task
LateEventForTask ==
  \/ lastOp' \in {"onmessage", "reconnect"}
  \/ /\ lastOp' \in {"onMounted", "initTaskProgress"}
     /\ lastEvent' # NoObj
     /\ lastEvent'["task_id"] = currentTaskId

\* C15 as stated (cooperative cancellation): once cancelTask has gone through
\* for a task, whatever was still under way for it (frames, reconnect timers,
\* status fetches in flight) changes nothing: the aggregated state stays as
\* it is with status cancelled, and no socket gets handlers again.
C15_NothingAfterCancel ==
  [][(lastOp = "cancelTask" /\ lastEvent["ok"] /\ LateEventForTask)
       => /\ UNCHANGED aggVars
          /\ taskStatus' = "cancelled"
          /\ Attached(sockets') = {}]_vars

\* C16 as stated (task switch in useWebSocket): a connect leaves handlers on
\* no socket but the manager's own, so the earlier task's connection is torn
\* down and forwards nothing; and a reconnect timer that fires while the
\* manager holds a connection leaves the manager on that connection's task: a
\* timer scheduled for task A cannot replace the connection of task B.
C16_TaskSwitch ==
  [][driven = "useWebSocket"
       => /\ lastOp' = "connect"
               => Attached(sockets') = {composable.socket'}
          /\ (lastOp' = "reconnect" /\ composable.socket # NoSocket)
               => /\ composable.socket' # NoSocket
                  /\ sockets'[composable.socket'].task
                       = sockets[composable.socket].task]_vars

----------------------------------------------------------------------------
(* Claims about the frames that reach the aggregator *)

\* frames of the connection's life cycle
LifecycleFrames == {[type |-> "connection_established"], [type |-> "pong"]}

\* C17 as stated (lifecycle frames are filtered): a frame whose type is
\* connection_established or pong never runs the event callback and, received
\* by either manager in any reachable state of the running client, leaves the
\* aggregated state as it is.
C17_LifecycleFiltered ==
  /\ (lastOp = "onmessage" /\ lastEvent \in LifecycleFrames)
       => connHist.delivered = 0
  /\ \A frame \in LifecycleFrames :
       /\ serviceOnMessage(AggState, frame) = AggState
       /\ composableOnMessage(AggState, frame) = AggState

\* events that carry no status, step description, error or preview reference
UnrecognizedEvents ==
  {<<>>, [type |-> "pong"], [progress |-> 50], [current_step |-> "plan"],
   [task_id |-> "t1"], Envelope(<<>>)}

\* C18 as stated (malformed input): in every reachable state of the
\* aggregator, the failed state included, a frame that does not parse and an
\* event with none of the recognized fields leave status, error, messages and
\* previews as they are.
C18_MalformedIgnored ==
  /\ SameOutcome(AggState, serviceOnMessage(AggState, Malformed))
  /\ SameOutcome(AggState, composableOnMessage(AggState, Malformed))
  /\ \A e \in UnrecognizedEvents :
       SameOutcome(AggState, updateTaskProgress(AggState, e))

----------------------------------------------------------------------------
(* Claims about the error and the previews an event leaves *)

\* events with or without a status, a step description, an error object and
\* a preview reference
MixedEvents ==
  { a @@ b @@ c @@ d :
      a \in Opt("status", Statuses),
      b \in Opt("step_description", {"planning", "yiwancheng"}),
      c \in Opt("error", {ErrBoom, ErrNone}),
      d \in {<<>>, [preview_url |-> "u1"]} }

\* the error the rule of section 4 asks for
ExpectedError(data) ==
  IF Has(data, "error") THEN data["error"]
  ELSE IF EventStatus(data) = "failed"
    THEN [has_error |-> TRUE, error_code |-> "UNKNOWN_ERROR",
          error_message |-> IF Has(data, "step_description")
                              THEN data["step_description"]
                              ELSE "renwuzhixingshibai",
          can_retry |-> TRUE]
  ELSE NoObj

\* C19 (error materialization): in every reachable state of the aggregator,
\* for every event that the terminal-state guard does not discard, bare or
\* enveloped: after updateTaskProgress taskError is the event's error object
\* if it carries one, else the default error (has_error and can_retry true,
\* message the step description or the generic text) if its status is
\* failed, else null.
C19_ErrorMaterialization ==
  \A e \in MixedEvents :
    ~IgnoresCompleted(AggState, e)
      => /\ updateTaskProgress(AggState, e).taskError = ExpectedError(e)
         /\ updateTaskProgress(AggState, Envelope(e)).taskError
              = ExpectedError(e)

\* C19 witness: a failed event without error object but with a description
\* was applied and left the default error made from the description
C19_Witness ==
  /\ lastOp = "updateTaskProgress"
  /\ EventStatus(lastEvent) = "failed"
  /\ ~Has(Unwrap(lastEvent), "error")
  /\ taskError = [has_error |-> TRUE, error_code |-> "UNKNOWN_ERROR",
                  error_message |-> "planning", can_retry |-> TRUE]

\* the URLs held in previewImages
Held(previews) == {previews[i] : i \in 1..Len(previews)}

\* events without preview references
PreviewlessEvents ==
  { a @@ b @@ c :
      a \in Opt("status", Statuses),
      b \in Opt("step_description", {"planning"}),
      c \in Opt("error", {ErrBoom}) }

\* C20 as stated (preview admission): in every reachable state of the
\* aggregator an event with preview references (a preview_url, a
\* preview_images list, or both) that the terminal-state guard does not
\* discard leaves every URL it refers to in previewImages, whatever its
\* status; the URLs held before stay; an event without preview references
\* leaves previewImages as it is.
C20_PreviewAdmission ==
  /\ \A e \in PreviewCarriers :
       ~IgnoresCompleted(AggState, e)
         => /\ UrlsOf(e) \subseteq Held(updateTaskProgress(AggState, e).previewImages)
            /\ Held(previewImages)
                 \subseteq Held(updateTaskProgress(AggState, e).previewImages)
  /\ \A e \in PreviewlessEvents :
       updateTaskProgress(AggState, e).previewImages = previewImages

----------------------------------------------------------------------------
(* Claims about the failed state of the aggregator *)

\* the event's status, step or text speaks of completion
ImpliesCompletion(data) ==
  \/ StrOr(data, "status", "") = "completed"
  \/ Includes(StrOr(data, "step_description", ""), "wancheng")
  \/ Includes(StrOr(data, "current_step", ""), "wancheng")

\* described events that speak of completion, with any status and step
CompletionFlavoured ==
  { e \in { a @@ b @@ c :
              a \in Opt("status", Statuses),
              b \in Opt("current_step", {"plan", "wancheng"}),
              c \in {"step_description" :> v : v \in {"planning", "yiwancheng"}} } :
      ImpliesCompletion(e) }

\* C21 as stated (completion suppression): in every reachable state of the
\* aggregator whose status is failed, no described event whose status, step
\* or text implies completion appends a message, whether its dedup key is
\* new or not.
C21_CompletionSuppressed ==
  taskStatus = "failed"
    => \A e \in CompletionFlavoured :
         updateTaskProgress(AggState, e).progressMessages = progressMessages

----------------------------------------------------------------------------
(* Claims about the persisted task id *)

\* C22 (resume failure): when the status fetch of initTaskProgress comes back
\* failed (no response, an error code, or an envelope without payload), the
\* step that handles it leaves currentTaskId null in memory and in
\* localStorage, attaches no connection (sockets, timers and both managers
\* stay as they are) and leaves the aggregated state as it is.
C22_ResumeFailure ==
  [][(lastOp' = "initTaskProgress" /\ lastEvent' = NoObj)
       => /\ currentTaskId' = Null
          /\ localStorage' = Null
          /\ UNCHANGED <<aggVars, sockets, timers, service, composable>>]_vars

\* C22 witness: a status fetch of initTaskProgress failed and the task id is
\* gone from memory and from localStorage
C22_Witness ==
  /\ lastOp = "initTaskProgress"
  /\ lastEvent = NoObj
  /\ currentTaskId = Null
  /\ localStorage = Null

----------------------------------------------------------------------------
(* Claims about the task id of the connection manager *)

\* C23 as stated (current task id of the manager): as long as the manager
\* holds the socket that connect(taskId) made, connecting or open, the task
\* id it reports (getTaskId() of the service, currentTaskId of the
\* composable) is taskId; right after disconnect() it is null.
C23_ManagerTaskId ==
  /\ (driven = "WebSocketService" /\ service.socket # NoSocket)
       => getTaskId(World) = sockets[service.socket].task
  /\ (driven = "useWebSocket" /\ composable.socket # NoSocket)
       => composable.currentTaskId = sockets[composable.socket].task
  /\ lastOp = "disconnect"
       => (getTaskId(World) = Null /\ composable.currentTaskId = Null)

\* C24 (persistence of the task id): in every reachable state of the running
\* client, whatever setCurrentTask and clearCurrentTask calls were made, the
\* in-memory currentTaskId equals the current_task_id item of localStorage
\* (null when absent); the store created by a page load holds the item's
\* value as it was before the load, null after clearCurrentTask.
C24_HandlePersistence ==
  /\ [](currentTaskId = localStorage)
  /\ [][lastOp' = "load"
          => (currentTaskId' = localStorage /\ localStorage' = localStorage)]_vars

\* C24 witness: a page load read back the id of a task that had been
\* replaced by another one or cleared before
C24_Witness ==
  /\ lastOp = "load"
  /\ currentTaskId = "t2"
  /\ localStorage = "t2"

----------------------------------------------------------------------------
(* utils/clientId: the identifier of this browser *)

\* the identifiers nanoid() may return
ClientIds == {"c1", "c2", "c3"}

\* getClientId that generates an identifier on every call
getClientId_AlwaysNew(item, nanoid) == [returned |-> nanoid, item |-> nanoid]

\* the value returned and the stored item after getClientId(), where nanoid
\* is what nanoid() would return; !clientId holds for null and for ""
getClientId(item, nanoid) ==
  IF item = Null \/ item = ""
    THEN [returned |-> nanoid, item |-> nanoid]
    ELSE [returned |-> item, item |-> item]

resetClientId(item, nanoid) == [returned |-> nanoid, item |-> nanoid]

\* the storage of a browser that may have run the application before
InitId ==
  /\ InitStore
  /\ InitBrowser
  /\ localStorage \in {Null} \cup Tasks
  /\ currentTaskId = localStorage
  /\ clientIdItem \in {Null} \cup ClientIds
  /\ clientId = Null
  /\ driven = "WebSocketService"
  /\ calls = NoCalls
  /\ mounted = {}
  /\ lastOp = "init"
  /\ lastEvent = NoObj
  /\ messageTriples = <<>>
  /\ connHist = InitConnHist

IdFrame == UNCHANGED <<aggVars, connVars, ctlVars, messageTriples, connHist>>

GetClientId ==
  \E nanoid \in ClientIds :
    /\ clientIdItem' = getClientId(clientIdItem, nanoid).item
    /\ lastOp' = "getClientId"
    /\ lastEvent' = [returned |-> getClientId(clientIdItem, nanoid).returned]
    /\ UNCHANGED <<clientVars, clientId>>
    /\ IdFrame

ResetClientId ==
  \E nanoid \in ClientIds :
    /\ clientIdItem' = resetClientId(clientIdItem, nanoid).item
    /\ lastOp' = "resetClientId"
    /\ lastEvent' = [returned |-> resetClientId(clientIdItem, nanoid).returned]
    /\ UNCHANGED <<clientVars, clientId>>
    /\ IdFrame

\* the process restarts on the same storage and the client store is created
\* anew: its refs are initialised from getClientId() and from the stored task
UseClientStore ==
  \E nanoid \in ClientIds :
    /\ clientIdItem' = getClientId(clientIdItem, nanoid).item
    /\ clientId' = getClientId(clientIdItem, nanoid).returned
    /\ currentTaskId' = localStorage
    /\ localStorage' = localStorage
    /\ lastOp' = "useClientStore"
    /\ lastEvent' = [returned |-> getClientId(clientIdItem, nanoid).returned]
    /\ IdFrame

SetCurrentTask ==
  \E taskId \in Tasks :
    /\ SetClient(setCurrentTask(ClientState, taskId))
    /\ lastOp' = "setCurrentTask"
    /\ lastEvent' = NoObj
    /\ UNCHANGED idVars
    /\ IdFrame

ClearCurrentTask ==
  /\ SetClient(clearCurrentTask(ClientState))
  /\ lastOp' = "clearCurrentTask"
  /\ lastEvent' = NoObj
  /\ UNCHANGED idVars
  /\ IdFrame

NextId ==
  \/ GetClientId
  \/ ResetClientId
  \/ UseClientStore
  \/ SetCurrentTask
  \/ ClearCurrentTask

SpecId == InitId /\ [][NextId]_vars

\* C25: getClientId (called directly or by the creation of the client store)
\* generates and stores an identifier only when none is stored and otherwise
\* returns the stored one unchanged, also after a restart on the same storage;
\* no operation but resetClientId changes a stored identifier
C25_ClientIdStable ==
  /\ [][lastOp' \in {"getClientId", "useClientStore"}
          => IF clientIdItem = Null
               THEN /\ clientIdItem' \in ClientIds
                    /\ lastEvent'["returned"] = clientIdItem'
               ELSE /\ clientIdItem' = clientIdItem
                    /\ lastEvent'["returned"] = clientIdItem]_vars
  /\ [][(clientIdItem # Null /\ lastOp' # "resetClientId")
          => clientIdItem' = clientIdItem]_vars

\* after a restart the store got an identifier, and a later getClientId
\* call returned that same identifier
C25_Witness ==
  /\ lastOp = "getClientId"
  /\ clientId \in ClientIds
  /\ lastEvent["returned"] = clientId
  /\ clientIdItem = clientId

\* C26: the new-task button of the download panel and the reset branches of
\* the cancel / restart button (status failed, or neither processing nor
\* pending) leave no persisted task behind and an empty aggregated state
C26_HandleCleared ==
  [][(\/ lastOp' = "handleNewTask"
      \/ /\ lastOp' = "handleCancel"
         /\ taskStatus \notin {"processing", "pending"})
       => /\ currentTaskId' = Null
          /\ localStorage' = Null
          /\ AggState' = EmptyAgg]_vars

----------------------------------------------------------------------------
(* Claims about the retry and the terminal events *)

\* the page once the create call c of a retry has been answered with body,
\* the store being s when the answer arrives
RetriedPage(s, c, body) ==
  createPptTaskResumes([Page EXCEPT !.agg = s, !.calls = RemoveCall(@, c)],
                       pptApi_createTask(body))

\* the store is that of a task just created, and the service's socket, the
\* only one with handlers, is on the task the page holds
FreshlyCreated(p) ==
  /\ p.agg.progressMessages = <<>>
  /\ p.agg.previewImages = <<>>
  /\ p.agg.taskError = NoObj
  /\ p.agg.taskStatus = "processing"
  /\ p.client.currentTaskId \in Tasks
  /\ Attached(p.w.sockets) = {p.w.service.socket}
  /\ p.w.sockets[p.w.service.socket].task = p.client.currentTaskId

\* C27: handleRetry does nothing unless status is failed; with valid inputs
\* it leaves the store reset and a create call in flight, and when that call
\* is answered with a task the store holds no message, preview or error,
\* status is processing and the socket is on the new task; a frame the
\* server sends meanwhile on a channel that is still open is received first
C27_RetryTask ==
  /\ ~hasFailed(AggState)
       => \A ht, hm \in BOOLEAN : handleRetry(Page, ht, hm) = Page
  /\ (lastOp = "handleRetry" /\ lastEvent["hasTemplate"]
        /\ lastEvent["hasMarkdown"])
       => /\ AggState = EmptyAgg
          /\ \E c \in DOMAIN calls : c.then = "createPptTask"
          /\ CanConnect
               => \A c \in {k \in DOMAIN calls : k.then = "createPptTask"},
                     body \in {b \in CreateBodies(NewTaskIds) :
                                  pptApi_createTask(b).ok},
                     taskId \in Tasks, frame \in ClientFrames :
                    FreshlyCreated(
                      RetriedPage(RunOnMessage(AggState, sockets,
                                               Receivers(sockets, taskId),
                                               frame),
                                  c, body))

\* the frame received in the step reports a terminal status
TerminalFrame(frame) ==
  Has(frame, "status") /\ frame["status"] \in {"failed", "completed"}

\* C28: when a failed or completed frame is received on the task's socket
\* (a completed one while status is failed aside), afterwards no socket has
\* handlers, no reconnect timer is armed and isGenerating is false; a
\* completed frame received while status is failed changes nothing
C28_TerminalEvent ==
  [][(lastOp' = "onmessage" /\ connHist'.delivered > 0
        /\ TerminalFrame(lastEvent'))
       => IF lastEvent'["status"] = "completed" /\ taskStatus = "failed"
            THEN UNCHANGED <<aggVars, clientVars, sockets, timers, service,
                             composable>>
            ELSE /\ taskStatus' = lastEvent'["status"]
                 /\ Attached(sockets') = {}
                 /\ timers' = {}
                 /\ ~isGenerating']_vars

\* events that are neither a failure nor an explicit reset
LaterEvents ==
  {a @@ b : a \in Opt("status", Statuses \ {"failed"}),
            b \in Opt("step_description", {"planning"})}

\* C29: once status is failed, no updateTaskProgress call with an event
\* whose status is pending, processing, cancelled, completed or absent
\* changes the status or the stored error
C29_FailureSticky ==
  taskStatus = "failed"
    => \A e \in LaterEvents :
         /\ updateTaskProgress(AggState, e).taskStatus = "failed"
         /\ updateTaskProgress(AggState, e).taskError = taskError

\* C30: once the store has been reset for a new task or a retry and the
\* create call is in flight, a frame received on a socket that is still
\* open, which can only be one of an earlier task, is not applied: the
\* store stays as the reset left it
C30_TaskIsolation ==
  [][(/\ lastOp \in {"startGeneration", "handleRetry"}
      /\ \E c \in DOMAIN calls : c.then = "createPptTask"
      /\ lastOp' = "onmessage")
       => UNCHANGED aggVars]_vars

----------------------------------------------------------------------------
(* Claims about the aggregator as a function of its events *)

\* C31: from every state of the aggregator and for every event e, applying
\* the envelope around e (the bare {data: e} or the REST envelope with code
\* and message) gives the same state as applying e itself
C31_EnvelopeUnwrap ==
  \A e \in BareEvents :
    /\ updateTaskProgress(AggState, [data |-> e])
         = updateTaskProgress(AggState, e)
    /\ updateTaskProgress(AggState, Envelope(e))
         = updateTaskProgress(AggState, e)

\* an envelope has been applied and has stored what its payload says
C31_Witness ==
  /\ lastOp = "updateTaskProgress"
  /\ Has(lastEvent, "data")
  /\ taskStatus = lastEvent["data"]["status"]
  /\ taskStatus = "completed"
  /\ previewImages # <<>>

\* seq is the beginning of longer
IsPrefix(seq, longer) ==
  Len(seq) <= Len(longer) /\ SubSeq(longer, 1, Len(seq)) = seq

\* C32: every updateTaskProgress call keeps the messages and previews held
\* so far in place and in order: the messages afterwards are the old list or
\* the old list with one message appended, and the previews are the old list
\* with zero or more previews appended
C32_AppendOnly ==
  \A e \in Events :
    LET after == updateTaskProgress(AggState, e)
    IN /\ IsPrefix(progressMessages, after.progressMessages)
       /\ Len(after.progressMessages) <= Len(progressMessages) + 1
       /\ IsPrefix(previewImages, after.previewImages)

\* a second message and a second preview have been appended
C32_Witness ==
  /\ lastOp = "updateTaskProgress"
  /\ Len(progressMessages) = 2
  /\ Len(previewImages) = 2

\* C33: resetProgress leaves status null, no message, no preview, no error
\* and isGenerating false, and an event and then a described event applied
\* afterwards give the state they give on a new store; in particular an event whose key was
\* processed before the reset appends its message again
C33_ResetRestoresInitial ==
  LET r == resetProgress(AggState)
  IN /\ r.taskStatus = Null
     /\ r.progressMessages = <<>>
     /\ r.previewImages = <<>>
     /\ r.taskError = NoObj
     /\ ~r.isGenerating
     /\ \A e1 \in Events, e2 \in MessageEvents :
          updateTaskProgress(updateTaskProgress(r, e1), e2)
            = updateTaskProgress(updateTaskProgress(EmptyAgg, e1), e2)
     /\ \A e \in MessageEvents :
          generateMessageKey(e) \in processedMessages
            => Len(updateTaskProgress(r, e).progressMessages) = 1

\* a store with processed keys, messages, previews and an error is reset
C33_Witness ==
  /\ processedMessages # {}
  /\ Len(progressMessages) = 2
  /\ previewImages # <<>>
  /\ taskError # NoObj
  /\ resetProgress(AggState) = EmptyAgg

----------------------------------------------------------------------------
(* Claims about the failure of the create call *)

\* C34: when POST /ppt/generate fails or its response is in neither of the
\* two recognised formats, createPptTask changes nothing: the task id in
\* memory and in localStorage, the status, isGenerating and the rest of the
\* store, and the sockets, timers and managers are as before
C34_CreateFailure ==
  [][(lastOp' = "createPptTask" /\ ~lastEvent'["ok"])
       => UNCHANGED <<aggVars, clientVars, sockets, timers, service,
                      composable>>]_vars

\* the create call of a retry has failed while an earlier task is persisted
C34_Witness ==
  /\ lastOp = "createPptTask"
  /\ ~lastEvent["ok"]
  /\ currentTaskId = "t1"
  /\ localStorage = "t1"
  /\ taskStatus = Null
  /\ ~isGenerating

----------------------------------------------------------------------------
(* Claims about redelivery and the dedup key *)

\* C35: from every state of the aggregator and for every event, applying
\* the event a second time right after the first gives the same status,
\* error, messages and previews as applying it once
C35_ApplyIdempotent ==
  \A e \in Events :
    LET once == updateTaskProgress(AggState, e)
        twice == updateTaskProgress(once, e)
    IN /\ twice.taskStatus = once.taskStatus
       /\ twice.taskError = once.taskError
       /\ twice.progressMessages = once.progressMessages
       /\ twice.previewImages = once.previewImages

\* the event applied last appended its message, and applying it again
\* changes nothing
C35_Witness ==
  /\ lastOp = "updateTaskProgress"
  /\ Has(Unwrap(lastEvent), "step_description")
  /\ progressMessages # <<>>
  /\ progressMessages[Len(progressMessages)].message
       = Unwrap(lastEvent)["step_description"]
  /\ updateTaskProgress(AggState, lastEvent) = AggState

\* described events whose step or description contains the separator
SeparatorEvents ==
  {[current_step |-> "a-1", progress |-> 2, step_description |-> "x"],
   [current_step |-> "a", progress |-> 1, step_description |-> "2-x"]}

\* described events with explicit fields, absent fields and separators
KeyEvents == MessageEvents \cup SeparatorEvents

\* C36: two events whose (current_step, progress, step_description) triples
\* differ have different dedup keys, and a described event whose triple has
\* no message yet and which no failed-state rule turns away appends one
\* message, also right after an event with another triple
C36_KeyInjective ==
  /\ \A e1, e2 \in KeyEvents :
       Triple(e1) # Triple(e2)
         => generateMessageKey(e1) # generateMessageKey(e2)
  /\ \A e1, e2 \in KeyEvents :
       LET s1 == updateTaskProgress(AggState, e1)
           t1 == TriplesAfter(AggState, e1, messageTriples)
           s2 == updateTaskProgress(s1, e2)
       IN (/\ \A i \in 1..Len(t1) : t1[i] # Triple(e2)
           /\ ~Rejected(s1, e2))
            => Len(s2.progressMessages) = Len(s1.progressMessages) + 1

----------------------------------------------------------------------------
(* Claims about the failed state *)

\* events that report the failure, in either wording
FailureEvents ==
  {[status |-> "failed"] @@ a @@ b :
     a \in Opt("current_step", {"plan"}),
     b \in {"step_description" :> v : v \in {"planning", "yiwancheng"}}}

\* C37: every event with status failed and a step description whose key has
\* not been processed appends exactly one message, marked isError and
\* carrying the description, whatever the description says
C37_FailureReported ==
  \A e \in FailureEvents :
    generateMessageKey(e) \notin processedMessages
      => LET after == updateTaskProgress(AggState, e).progressMessages
         IN /\ Len(after) = Len(progressMessages) + 1
            /\ after[Len(after)].isError
            /\ after[Len(after)].message = e["step_description"]

\* C38: in every state the store reaches through updateTaskProgress, a
\* status of failed comes with a stored error
C38_FailedHasError == taskStatus = "failed" => taskError # NoObj

----------------------------------------------------------------------------
(* Claims about the completed payload of the API document *)

\* the error object the API document gives for a task without an error
ErrAbsent == [has_error |-> FALSE, error_code |-> Null,
              error_message |-> Null, can_retry |-> FALSE]

\* completed payloads with previews and a no-error error object
CompletedPayloads ==
  {[status |-> "completed", error |-> err,
    preview_images |-> <<Img("u1"), Img("u2")>>] : err \in {ErrAbsent, ErrNone}}

\* C39: unless the store is in status failed, applying a completed payload
\* whose error object says has_error false leaves the task completed with
\* its preview_images among the previews and the download condition true
C39_CompletedWithoutError ==
  taskStatus # "failed"
    => \A e \in CompletedPayloads :
         LET after == updateTaskProgress(AggState, Envelope(e))
         IN /\ after.taskStatus = "completed"
            /\ UrlExists(after.previewImages, "u1")
            /\ UrlExists(after.previewImages, "u2")
            /\ taskCompleted(after)

----------------------------------------------------------------------------
(* Claims about recovery after the reconnect bound *)

\* useWebSocket has used up its reconnect attempts: no socket, no timer,
\* the counter at the bound, the task still recorded
Exhausted ==
  /\ driven = "useWebSocket"
  /\ composable.socket = NoSocket
  /\ composable.reconnectAttempts = maxReconnectAttempts
  /\ composable.currentTaskId # Null
  /\ timers = {}

\* C40: once useWebSocket has used up its reconnect attempts, a connect for
\* the same task leaves the attempt counter at 0, and when the new
\* connection closes a reconnect is scheduled as after a first connect
C40_FreshBudget ==
  (Exhausted /\ CanConnect)
    => LET taskId == composable.currentTaskId
           w == connectWebSocket(World, taskId)
           closed == composableOnClose(
                       [w EXCEPT !.sockets = Remove(@, w.composable.socket)],
                       taskId)
       IN /\ w.composable.reconnectAttempts = 0
          /\ closed.timers # {}
          /\ closed.composable.reconnectAttempts = 1
====
